---- MODULE Spec2Model ----
(***************************************************************************)
(* Canvas Coach / BMaind: the context assembly and relevance ranking       *)
(* pipeline.                                                               *)
(*                                                                         *)
(*   Spec      the server-side smart-search route (download loop, per      *)
(*             document LLM judgment with fallback, ranking and filter),   *)
(*             in its Gemini 2.5 Pro and Gemini 2.5 Flash variants.        *)
(*   SpecAcquire  the download loop of that route alone, on larger         *)
(*             requests.                                                   *)
(*   SpecChat  the chat component: sendMessage with its smart search,      *)
(*             prompt assembly, length check and streaming consumer.       *)
(*   SpecPack  the client-side context packer of the PDF chat and of the   *)
(*             comprehensive Dropbox chat (CanvasCoach.tsx).                *)
(*   SpecCancel  the chat while the user leaves during an answer.          *)
(*   SpecScore  extractSearchTerms and prioritizeContent on questions and  *)
(*             document texts made of a few words.                         *)
(*   SpecJudge  the judgment loop of the route with calls in flight.       *)
(*   SpecExtract  get-file-content's validation of the extracted text.     *)
(*   SpecSend  calls of sendMessage between renders.                       *)
(*   SpecConnect  DropboxConnect: authorization, retries, file listing,    *)
(*             disconnect.                                                 *)
(*   SpecLibrary  the session list and the PDF library of CanvasCoach.     *)
(***************************************************************************)
EXTENDS Integers, Sequences, FiniteSets, TLC

(***************************************************************************)
(* Bounds of the model.                                                    *)
(***************************************************************************)
\* Largest number of files in one smart-search request.
MaxFiles == 3
\* Largest number of files in a request of the acquisition step alone.
MaxAcquireFiles == 5
\* Largest number of Dropbox files the chat component is given.
MaxChatFiles == 2
\* Largest number of questions sent in one chat.
MaxQuestions == 2
\* Largest number of token events in one streamed answer.
MaxTokens == 2
\* Largest number of documents handed to the context packer.
MaxPDFs == 3
\* Largest number of equally long documents handed to the context packer.
MaxUniformPDFs == 10
\* Largest number of words in a question given to extractSearchTerms.
MaxWords == 2
\* Largest number of pieces of a document text given to prioritizeContent.
MaxPieces == 2
\* Largest number of occurrences appended to a document text.
MaxAppends == 2
\* Largest number of characters of an extracted text.
MaxTextLen == 10
\* Largest number of calls of sendMessage in one chat.
MaxInvocations == 4
\* Largest number of reconnections scheduled after one click on connect, and
\* largest retryCount at which the user clicks connect again.
MaxAutoRetries == 5
\* Largest number of file listings in flight.
MaxLoads == 2
\* Largest number of files a listing returns.
MaxListed == 2
\* Number of different PDFs the user has.
MaxLibraryPDFs == 4

VARIABLES
    \* ---- smart-search route (POST /api/dropbox/smart-search) ----
    variant,            \* "pro" | "flash": which route implementation runs
    files,              \* the request's files, a sequence of file ids
    spc,                \* position of the handler
    idx,                \* index of the loop in progress
    filesWithContent,   \* files whose content was loaded
    searchResults,      \* per-document results collected so far
    response,           \* the HTTP response of the route
    fetchedOk,          \* history: files whose fetch and extraction succeeded
    lastJudge,          \* history: the judgment of the document handled last
    \* ---- chat component (DropboxChatInterface) ----
    chatFiles,          \* dropboxFiles.length
    inputMessage,       \* length of the text in the input box (0: empty)
    messages,           \* the conversation
    isLoading,
    isStreaming,
    streamingMessage,   \* the answer shown while it streams
    cpc,                \* position of sendMessage: idle, searching, fetching, reading
    question,           \* sendMessage's inputMessage.trim() (its length)
    relevantFiles, \* how many results performSmartSearch returned
    routeStatus,        \* history: status of the route's answer (0 none, -1 no answer)
    payload,            \* the prompt sent to /api/chat-stream
    served,             \* the streaming endpoint: none, open, ended
    sent,               \* token events the endpoint has emitted
    buffer,             \* the incomplete last line of the chunks read so far
    fullResponse,       \* tokens accumulated by the consumer
    runs,               \* questions sent so far
    errorSeen,          \* history: the consumer parsed an error event in this run
    aborted,            \* history: the stream of this run errored mid-flight
    closed,             \* the user has left the chat (the component is unmounted)
    \* ---- context packer (prepareComprehensive...Context) ----
    packKind,           \* "pdf" | "dropbox": which packer runs
    uploadedPDFs,       \* the documents with their text, in upload order
    userQuestion,       \* the question
    processedPDFs,      \* the documents with their scores, sorted
    totalContext,       \* length of the context built so far
    includedPDFs,       \* documents added in full
    included,           \* history: names of the documents added, in order
    manifest,           \* history: names listed in the summary of the rest
    ppc,                \* position of the packer: idle, loop, done
    \* ---- extractSearchTerms and prioritizeContent ----
    words,              \* the question, word by word
    searchTerms,        \* what extractSearchTerms returned
    content,            \* the document text, piece by piece
    textScore,          \* what prioritizeContent returned
    prevScore,          \* history: the score before the last append
    appended,           \* history: occurrences appended to the text
    tpc,                \* idle, terms, scored, appended
    \* ---- the judgment loop with calls in flight ----
    pending,            \* the document whose generateContent call is awaited, 0 if none
    started,            \* the documents whose judgment call has been sent
    \* ---- get-file-content: validation of the extracted text ----
    textContent,        \* the extracted text, character by character
    extractStatus,      \* status of the response of get-file-content, 0 before
    acquired,           \* the caller passed the text on to scoring
    epc,                \* idle, extracted, responded, done
    \* ---- sendMessage and the render it was created in ----
    closureLoading,     \* isLoading as the current render's sendMessage sees it
    closureInput,       \* inputMessage (its length) as that render sees it
    stateLoading,       \* isLoading as last set
    stateInput,         \* inputMessage (its length) as last set
    inFlight,           \* runs of sendMessage that passed the guard and are not over
    invoked,            \* history: calls of sendMessage so far
    \* ---- DropboxConnect and its parent ----
    storedToken,        \* localStorage holds dropbox_access_token
    connToken,          \* accessToken of DropboxConnect is set
    parentToken,        \* accessToken of the parent is set
    isConnected,        \* DropboxConnect reports a connection
    isDropboxConnected, \* the parent reports a connection
    availableFiles,     \* number of files in the list of DropboxConnect
    dropboxFiles,       \* number of files in the list of the parent
    isLoadingFiles,     \* a file listing is shown as loading
    loadsInFlight,      \* search-files requests not yet answered
    isConnecting,
    isAutoRetrying,
    retryCount,         \* retryCount as last set
    closureRetryCount,  \* retryCount as the running connectToDropbox sees it
    autoRetries,        \* history: reconnections scheduled since the user's click
    disconnected,       \* history: disconnectDropbox ran, no authorization since
    cnpc,               \* idle, waiting (popup open), scheduled (retry timer set)
    \* ---- the PDF library of CanvasCoach ----
    sessionPDFs,        \* uploadedPDFs of the component: ids of the session list
    libraryPDFs,        \* ids of the library in memory
    storedLibrary,      \* ids of the library in localStorage
    isInitialized

searchVars == <<variant, files, spc, idx, filesWithContent, searchResults,
                response, fetchedOk, lastJudge>>

chatVars == <<chatFiles, inputMessage, messages, isLoading, isStreaming,
              streamingMessage, cpc, question, relevantFiles, routeStatus,
              payload, served, sent, buffer, fullResponse, runs, errorSeen, aborted,
              closed>>

packVars == <<packKind, uploadedPDFs, userQuestion, processedPDFs, totalContext,
              includedPDFs, included, manifest, ppc>>

scoreVars == <<words, searchTerms, content, textScore, prevScore, appended, tpc>>

judgeVars == <<pending, started>>

extractVars == <<textContent, extractStatus, acquired, epc>>

sendVars == <<closureLoading, closureInput, stateLoading, stateInput, inFlight, invoked>>

connVars == <<storedToken, connToken, parentToken, isConnected, isDropboxConnected,
              availableFiles, dropboxFiles, isLoadingFiles, loadsInFlight,
              isConnecting, isAutoRetrying, retryCount, closureRetryCount,
              autoRetries, disconnected, cnpc>>

libVars == <<sessionPDFs, libraryPDFs, storedLibrary, isInitialized>>

\* The variables of the components that follow the four above.
restVars == <<judgeVars, extractVars, sendVars, connVars, libVars>>

vars == <<searchVars, chatVars, packVars, scoreVars, restVars>>

\* Number of characters of String(n), n >= 0.
RECURSIVE Digits(_)
Digits(n) == IF n < 10 THEN 1 ELSE 1 + Digits(n \div 10)

(***************************************************************************)
(* extractSearchTerms and prioritizeContent on texts.  A question is a     *)
(* sequence of words; a word is its lower-cased text, whether it is        *)
(* written with a capital and whether it stands between double quotes.  A  *)
(* document text is a sequence of pieces separated by blanks.              *)
(***************************************************************************)
\* canvasTerms and actionWords, the entries that occur in the questions here.
Vocabulary == <<"canvas", "opdracht">>
ActionWords == <<"maak">>

WordChoices ==
    {[text |-> "canvas", upper |-> u, quoted |-> q] : u, q \in BOOLEAN}
    \cup {[text |-> "10", upper |-> FALSE, quoted |-> q] : q \in BOOLEAN}
    \cup {[text |-> t, upper |-> FALSE, quoted |-> FALSE] : t \in {"opdracht", "maak", "rubriek"}}
    \cup {[text |-> "prijs$", upper |-> FALSE, quoted |-> TRUE]}

QuestionWords(n) == UNION {[1..k -> WordChoices] : k \in 0..n}

\* /\b\d+\b/ matches the word.
IsNumber(w) == w.text = "10"

\* A term as pushed: its lower-cased text, and whether it has a capital.
Term(text, upper) == [text |-> text, upper |-> upper]

\* lowerQuestion.includes(t)
Mentions(q, t) == \E i \in 1..Len(q) : q[i].text = t

\* list.forEach(term => { if (lowerQuestion.includes(term)) terms.push(term) })
RECURSIVE ListedTerms(_, _)
ListedTerms(q, list) ==
    IF list = <<>> THEN <<>>
    ELSE (IF Mentions(q, Head(list)) THEN <<Term(Head(list), FALSE)>> ELSE <<>>)
         \o ListedTerms(q, Tail(list))

\* question.match(/\b\d+\b/g)
RECURSIVE NumberTerms(_)
NumberTerms(q) ==
    IF q = <<>> THEN <<>>
    ELSE (IF IsNumber(Head(q)) THEN <<Term(Head(q).text, FALSE)>> ELSE <<>>)
         \o NumberTerms(Tail(q))

\* question.match(/"([^"]+)"/g) with the quotes removed: the phrase as it
\* is written in the question.
RECURSIVE QuotedTerms(_)
QuotedTerms(q) ==
    IF q = <<>> THEN <<>>
    ELSE (IF Head(q).quoted THEN <<Term(Head(q).text, Head(q).upper)>> ELSE <<>>)
         \o QuotedTerms(Tail(q))

\* Two strings are the same element of a Set.
SameTerm(a, b) == a = b

\* Array.from(new Set(terms)): the first occurrence of every string.
RECURSIVE UniqueTerms(_)
UniqueTerms(s) ==
    IF s = <<>> THEN <<>>
    ELSE LET r == UniqueTerms(SubSeq(s, 1, Len(s) - 1))
             x == s[Len(s)]
         IN  IF \E i \in 1..Len(r) : SameTerm(r[i], x) THEN r ELSE Append(r, x)

ExtractSearchTerms(q) ==
    UniqueTerms(ListedTerms(q, Vocabulary) \o NumberTerms(q) \o QuotedTerms(q)
                \o ListedTerms(q, ActionWords))

\* The pieces of document texts.
Pieces == {"canvas", "canvas:", "**canvas**", "prijs", "prijs$", "stap", "tekst"}

Contents(n) == UNION {[1..k -> Pieces] : k \in 0..n}

\* The pieces in which the text t occurs.
Holding(t) ==
    IF t = "canvas" THEN {"canvas", "canvas:", "**canvas**"}
    ELSE IF t = "prijs" THEN {"prijs", "prijs$"}
    ELSE {t}

\* (lowerContent.match(new RegExp(t, 'g')) || []).length: t is read as a
\* regular expression, so "prijs$" matches "prijs" at the very end of the
\* content and nowhere else.
MatchCount(c, t) ==
    IF t = "prijs$"
    THEN (IF c # <<>> /\ c[Len(c)] = "prijs" THEN 1 ELSE 0)
    ELSE Cardinality({i \in 1..Len(c) : c[i] \in Holding(t)})

\* lowerContent.includes(`${t}:`) and lowerContent.includes(`**${t}**`)
HasColon(c, t) == t = "canvas" /\ \E i \in 1..Len(c) : c[i] = "canvas:"
HasBold(c, t) == t = "canvas" /\ \E i \in 1..Len(c) : c[i] = "**canvas**"

RECURSIVE TermsScore(_, _)
TermsScore(c, terms) ==
    IF terms = <<>> THEN 0
    ELSE MatchCount(c, Head(terms).text) * 10
         + (IF HasColon(c, Head(terms).text) THEN 5 ELSE 0)
         + (IF HasBold(c, Head(terms).text) THEN 5 ELSE 0)
         + TermsScore(c, Tail(terms))

\* The instructional keywords: 'stap' is the one that occurs in the pieces.
InstructionalScore(c) == IF \E i \in 1..Len(c) : c[i] = "stap" THEN 3 ELSE 0

\* prioritizeContent(content, searchTerms).score
PrioritizeText(c, terms) == TermsScore(c, terms) + InstructionalScore(c)

ScoreIdle ==
    /\ words = <<>>
    /\ searchTerms = <<>>
    /\ content = <<>>
    /\ textScore = 0
    /\ prevScore = 0
    /\ appended = 0
    /\ tpc = "idle"

JudgeIdle ==
    /\ pending = 0
    /\ started = {}

ExtractIdle ==
    /\ textContent = <<>>
    /\ extractStatus = 0
    /\ acquired = FALSE
    /\ epc = "idle"

SendIdle ==
    /\ closureLoading = FALSE
    /\ closureInput = 0
    /\ stateLoading = FALSE
    /\ stateInput = 0
    /\ inFlight = 0
    /\ invoked = 0

ConnIdle ==
    /\ storedToken = FALSE
    /\ connToken = FALSE
    /\ parentToken = FALSE
    /\ isConnected = FALSE
    /\ isDropboxConnected = FALSE
    /\ availableFiles = 0
    /\ dropboxFiles = 0
    /\ isLoadingFiles = FALSE
    /\ loadsInFlight = 0
    /\ isConnecting = FALSE
    /\ isAutoRetrying = FALSE
    /\ retryCount = 0
    /\ closureRetryCount = 0
    /\ autoRetries = 0
    /\ disconnected = FALSE
    /\ cnpc = "idle"

LibIdle ==
    /\ sessionPDFs = {}
    /\ libraryPDFs = {}
    /\ storedLibrary = {}
    /\ isInitialized = FALSE

RestIdle ==
    /\ JudgeIdle
    /\ ExtractIdle
    /\ SendIdle
    /\ ConnIdle
    /\ LibIdle

(***************************************************************************)
(* The context packer: prepareComprehensivePDFContext and                  *)
(* prepareComprehensiveDropboxContext.  Strings are modelled by their      *)
(* lengths in UTF-16 code units, which is what .length compares with the   *)
(* budget.                                                                 *)
(***************************************************************************)
\* MAX_MESSAGE_LENGTH of the PDF chat and of the comprehensive Dropbox chat.
PDF_MAX_MESSAGE_LENGTH == 180000
DROPBOX_MAX_MESSAGE_LENGTH == 200000

PackBudget(kind) ==
    IF kind = "pdf" THEN PDF_MAX_MESSAGE_LENGTH ELSE DROPBOX_MAX_MESSAGE_LENGTH

\* Lengths of the fixed text of the packer's templates.
PdfContextFixed == 488
PdfBlockFixed == 125
PdfSummaryFixed == 207
DropboxContextFixed == 512
DropboxBlockFixed == 178
DropboxSummaryFixed == 223
SummaryLineFixed == 21

\* The questions: length, number of search terms extracted from it and the
\* length of searchTerms.join(', ').
Questions ==
    {[len |-> 24, terms |-> 0, termsLen |-> 0],
     [len |-> 40, terms |-> 2, termsLen |-> 16],
     [len |-> 200000, terms |-> 1, termsLen |-> 6]}

\* The documents: lengths of the name, of the document type text and of the
\* content; occ: occurrences of each search term in the content; colon, bold:
\* each search term also occurs as "term:" / "**term**"; instr: how many of
\* the six instructional keywords occur.
Library ==
    {[name |-> "basis", nameLen |-> 9, typeLen |-> 23, len |-> 60000,
      occ |-> 3, colon |-> TRUE, bold |-> FALSE, instr |-> 2],
     [name |-> "handleiding", nameLen |-> 15, typeLen |-> 18, len |-> 100000,
      occ |-> 1, colon |-> FALSE, bold |-> FALSE, instr |-> 1],
     [name |-> "webinar", nameLen |-> 11, typeLen |-> 20, len |-> 30000,
      occ |-> 0, colon |-> FALSE, bold |-> FALSE, instr |-> 1],
     [name |-> "extra", nameLen |-> 9, typeLen |-> 23, len |-> 179000,
      occ |-> 3, colon |-> TRUE, bold |-> FALSE, instr |-> 2],
     [name |-> "evalueren", nameLen |-> 13, typeLen |-> 23, len |-> 250000,
      occ |-> 2, colon |-> FALSE, bold |-> TRUE, instr |-> 3]}

\* Sequences of distinct documents of the library, at most n long.
DocumentLists(n) ==
    {l \in UNION {[1..k -> Library] : k \in 0..n} :
        \A i, j \in 1..Len(l) : i # j => l[i].name # l[j].name}

\* A manual of 30,000 characters, the i-th of a list of such.
UniformDocument(i) ==
    [name |-> ToString(i), nameLen |-> Digits(i) + 4, typeLen |-> 18, len |-> 30000,
     occ |-> 1, colon |-> FALSE, bold |-> FALSE, instr |-> 0]

\* Lists of equally long documents, at most n long.
UniformLists(n) == {[i \in 1..k |-> UniformDocument(i)] : k \in 0..n}

\* prioritizeContent: 10 per occurrence of a term, 5 for "term:", 5 for
\* "**term**", 3 per instructional keyword present.
PrioritizeContent(doc, q) ==
    q.terms * (doc.occ * 10 + (IF doc.colon THEN 5 ELSE 0) + (IF doc.bold THEN 5 ELSE 0))
    + doc.instr * 3

\* Mutant: prioritizeContent cuts the content to 50,000 characters.
ContentCut(doc) == IF doc.len > 50000 THEN 50000 ELSE doc.len

\* Length of the content prioritizeContent returns: the content it was given.
ContentKept(doc) == doc.len

Processed(doc, q) ==
    [name |-> doc.name, nameLen |-> doc.nameLen, typeLen |-> doc.typeLen,
     len |-> doc.len, relevanceScore |-> PrioritizeContent(doc, q),
     processedLen |-> ContentKept(doc)]

\* Mutant: the comparator also puts a before b when their scores are equal.
PackBeforeOrEqual(a, b) == b.relevanceScore - a.relevanceScore <= 0

\* The comparator (a, b) => b.relevanceScore - a.relevanceScore orders a
\* before b.
PackBefore(a, b) == b.relevanceScore - a.relevanceScore < 0

\* processedPDFs.sort(...): Array.prototype.sort is stable, so each element
\* goes behind the earlier elements it does not come before.
RECURSIVE PackInsert(_, _)
PackInsert(x, s) ==
    IF s = <<>> THEN <<x>>
    ELSE IF PackBefore(x, Head(s)) THEN <<x>> \o s
    ELSE <<Head(s)>> \o PackInsert(x, Tail(s))

RECURSIVE PackSort(_)
PackSort(s) ==
    IF s = <<>> THEN <<>>
    ELSE PackInsert(s[Len(s)], PackSort(SubSeq(s, 1, Len(s) - 1)))

\* Length of (len / 1000).toFixed(1); exact for the lengths of the library,
\* which are multiples of 100.
SizeLen(len) == Digits(len \div 1000) + 2

\* Length of 'HIGH' / 'MEDIUM' / 'LOW'.
PriorityLen(score) == IF score > 50 THEN 4 ELSE IF score > 20 THEN 6 ELSE 3

\* Length of the opening text of the context.
ContextHeadLen(kind, n, q) ==
    (IF kind = "pdf" THEN PdfContextFixed ELSE DropboxContextFixed)
    + Digits(n) + q.termsLen + q.len

\* Length of the block of one document, the k-th of n; the Dropbox block
\* also names the path, "/" and the lower-cased name.
BlockLen(kind, d, k, n) ==
    (IF kind = "pdf" THEN PdfBlockFixed ELSE DropboxBlockFixed + 1 + d.nameLen)
    + Digits(k) + Digits(n) + 3 * d.nameLen + Digits(d.relevanceScore)
    + d.typeLen + SizeLen(d.len) + PriorityLen(d.relevanceScore) + d.processedLen

RECURSIVE SummaryLinesLen(_)
SummaryLinesLen(rest) ==
    IF rest = <<>> THEN 0
    ELSE SummaryLineFixed + Head(rest).nameLen + SizeLen(Head(rest).len)
         + Digits(Head(rest).relevanceScore)
         + (IF Len(rest) > 1 THEN 1 ELSE 0) + SummaryLinesLen(Tail(rest))

\* Length of the summary of the documents that were not added.
SummaryLen(kind, rest) ==
    (IF kind = "pdf" THEN PdfSummaryFixed ELSE DropboxSummaryFixed)
    + Digits(Len(rest)) + SummaryLinesLen(rest)

Names(s) == [i \in 1..Len(s) |-> s[i].name]

\* Mutant: the document that did not fit is left out of the summary.
RemainingAfterNext(s, n) == SubSeq(s, n + 2, Len(s))

\* processedPDFs.slice(includedPDFs)
Remaining(s, n) == SubSeq(s, n + 1, Len(s))

PackIdle ==
    /\ packKind = "pdf"
    /\ uploadedPDFs = <<>>
    /\ userQuestion = [len |-> 0, terms |-> 0, termsLen |-> 0]
    /\ processedPDFs = <<>>
    /\ totalContext = 0
    /\ includedPDFs = 0
    /\ included = <<>>
    /\ manifest = <<>>
    /\ ppc = "idle"

(***************************************************************************)
(* The language model's answer for one document, as the route sees it.     *)
(*   kind    "throw"    generateContent rejects                            *)
(*           "nojson"   the text holds no {...} region                     *)
(*           "badjson"  a {...} region is found and JSON.parse throws      *)
(*           "json"     a {...} region parses                              *)
(*   relNum  typeof relevanceScore === 'number'                            *)
(*   rel     the parsed relevanceScore                                     *)
(*   conf    the parsed confidence (0 when absent: confidence || 0)        *)
(*   fb      the answer to the fallback prompt: "throw" | "nonnum" | "num" *)
(*   fbScore the first run of digits of the fallback answer                *)
(***************************************************************************)
RelValues == {0, 12, 50, 80}
RelOutOfRange == {-1, 101}
ConfValues == {0, 29, 50, 80, 90}
FallbackScores == {0, 40, 101}

NoJudge == [kind |-> "none", relNum |-> FALSE, rel |-> 0, conf |-> 0,
            fb |-> "none", fbScore |-> 0]

JudgeInputs ==
    {[NoJudge EXCEPT !.kind = k] : k \in {"throw", "nojson"}}
    \cup {[NoJudge EXCEPT !.kind = "json", !.relNum = TRUE, !.rel = r, !.conf = c] :
            r \in RelValues, c \in ConfValues}
    \cup {[NoJudge EXCEPT !.kind = "json", !.relNum = TRUE, !.rel = r] :
            r \in RelOutOfRange}
    \cup {[NoJudge EXCEPT !.kind = "json", !.relNum = FALSE]}
    \cup {[NoJudge EXCEPT !.kind = "badjson", !.fb = f] : f \in {"throw", "nonnum"}}
    \cup {[NoJudge EXCEPT !.kind = "badjson", !.fb = "num", !.fbScore = n] :
            n \in FallbackScores}

\* Outcome of fetching one file's content. get-file-content answers 200 with
\* success and a non-empty content, or an error status:
\*   "throw" the fetch (or reading its body) rejects,
\*   "http"  the response is not ok (download or extraction failed),
\*   "ok"    success with the extracted content.
DownloadOutcomes == {"throw", "http", "ok"}

\* A SearchResult. orig is a history field: the relevance the model judged,
\* before the ranker rescales relevanceScore in place.
Result(f, rel, conf) ==
    [file |-> f, relevanceScore |-> rel, confidence |-> conf, orig |-> rel]

(***************************************************************************)
(* Step 1 of the route: the download loop.                                 *)
(***************************************************************************)
\* Mutant: the response.ok test is forgotten.
DownloadKeepsAnyResponse(outcome) == outcome # "throw"

\* The file is kept when response.ok && data.success && data.content.
DownloadKeeps(outcome) == outcome = "ok"

(***************************************************************************)
(* Step 2, Gemini 2.5 Pro: judgment of one document.                       *)
(***************************************************************************)
\* Validation of the parsed relevanceScore.
ProValidScore(j) == j.relNum /\ j.rel >= 0 /\ j.rel <= 100

\* Mutant: a validated score of 0 is pushed like any other.
ProPushesZero(j) == j.rel >= 0

\* The guard of the push: a validated score is pushed when it is > 0.
ProPushes(j) == j.rel > 0

\* What the first answer appends to searchResults.
ProParse(f, j) ==
    IF j.kind = "json" /\ ProValidScore(j) /\ ProPushes(j)
    THEN <<Result(f, j.rel, j.conf)>>
    ELSE <<>>

\* The fallback prompt is sent from the catch block of the parse only.
ProTakesFallback(j) == j.kind = "badjson"

\* What the fallback answer appends: a bare score in 1..100 at confidence 50.
ProFallback(f, j) ==
    IF j.fb = "num" /\ j.fbScore > 0 /\ j.fbScore <= 100
    THEN <<Result(f, j.fbScore, 50)>>
    ELSE <<>>

(***************************************************************************)
(* Step 2, Gemini 2.5 Flash: judgment of one document (no validation, no   *)
(* confidence, no fallback).                                               *)
(***************************************************************************)
FlashPushes(j) == j.relNum /\ j.rel > 0

FlashParse(f, j) ==
    IF j.kind = "json" /\ FlashPushes(j)
    THEN <<Result(f, j.rel, 0)>>
    ELSE <<>>

(***************************************************************************)
(* Step 3: ranking.                                                        *)
(***************************************************************************)
\* Pairs (relevanceScore, confidence) in 0..100 x 0..200 whose IEEE-754
\* product relevanceScore * (confidence / 100) is the double just below
\* k + 1/2 although the exact product is k + 1/2: Math.round yields k.
FloatBelowHalf ==
    {<<25, 58>>, <<25, 114>>, <<45, 70>>, <<50, 29>>, <<50, 57>>, <<50, 113>>,
     <<50, 115>>, <<75, 82>>, <<75, 114>>, <<75, 138>>, <<85, 70>>, <<90, 35>>,
     <<90, 115>>}

\* Mutant: the product is truncated instead of rounded.
RescaleTruncates(rel, conf) == (rel * conf) \div 100

\* Math.round(relevanceScore * (confidence / 100)), for non-negative operands.
Rescale(rel, conf) ==
    IF <<rel, conf>> \in FloatBelowHalf
    THEN (rel * conf) \div 100
    ELSE (rel * conf + 50) \div 100

RescaleAll(s) ==
    [i \in 1..Len(s) |->
        [s[i] EXCEPT !.relevanceScore = Rescale(s[i].relevanceScore, s[i].confidence)]]

\* Mutant: the tie on relevanceScore is broken by ascending confidence.
ProBeforeTieAscending(a, b) ==
    IF b.relevanceScore # a.relevanceScore
    THEN b.relevanceScore - a.relevanceScore < 0
    ELSE a.confidence - b.confidence < 0

\* The Pro comparator orders a before b.
ProBefore(a, b) ==
    IF b.relevanceScore # a.relevanceScore
    THEN b.relevanceScore - a.relevanceScore < 0
    ELSE b.confidence - a.confidence < 0

\* The Flash comparator orders a before b.
FlashBefore(a, b) == b.relevanceScore - a.relevanceScore < 0

\* Array.prototype.sort is stable: an element is placed after every element
\* the comparator does not order it before.
RECURSIVE ProInsert(_, _)
ProInsert(x, s) ==
    IF s = <<>> THEN <<x>>
    ELSE IF ProBefore(x, Head(s)) THEN <<x>> \o s
    ELSE <<Head(s)>> \o ProInsert(x, Tail(s))

RECURSIVE ProSort(_)
ProSort(s) ==
    IF s = <<>> THEN <<>>
    ELSE ProInsert(s[Len(s)], ProSort(SubSeq(s, 1, Len(s) - 1)))

RECURSIVE FlashInsert(_, _)
FlashInsert(x, s) ==
    IF s = <<>> THEN <<x>>
    ELSE IF FlashBefore(x, Head(s)) THEN <<x>> \o s
    ELSE <<Head(s)>> \o FlashInsert(x, Tail(s))

RECURSIVE FlashSort(_)
FlashSort(s) ==
    IF s = <<>> THEN <<>>
    ELSE FlashInsert(s[Len(s)], FlashSort(SubSeq(s, 1, Len(s) - 1)))

\* The relevance floor of the Pro route.
\* Mutant: a result at the floor is kept.
AtOrAboveFloor(r) == r.relevanceScore >= 10

\* searchResults.filter(result => result.relevanceScore > 10)
AboveFloor(r) == r.relevanceScore > 10

ProFilter(s) == SelectSeq(s, AboveFloor)

NoResponse == [status |-> 0, results |-> <<>>]

\* Step 3 on the collected results: rescale, sort (Pro) or sort (Flash).
RouteRank(v, s) == IF v = "pro" THEN ProSort(RescaleAll(s)) ELSE FlashSort(s)

\* The results of the 200 response.
RouteResults(v, ranked) == IF v = "pro" THEN ProFilter(ranked) ELSE ranked

\* Everything one document appends to searchResults.
JudgeAppends(v, f, j) ==
    IF v = "pro"
    THEN ProParse(f, j) \o (IF ProTakesFallback(j) THEN ProFallback(f, j) ELSE <<>>)
    ELSE FlashParse(f, j)

\* The whole route on n files, given each file's download outcome dl[i] and
\* the model's answer js[i] for it: the response the caller receives.
RECURSIVE RouteCollect(_, _, _, _, _)
RouteCollect(v, n, dl, js, i) ==
    IF i > n THEN <<>>
    ELSE (IF DownloadKeeps(dl[i]) THEN JudgeAppends(v, i, js[i]) ELSE <<>>)
         \o RouteCollect(v, n, dl, js, i + 1)

RouteResponse(v, n, dl, js) ==
    IF \A i \in 1..n : ~DownloadKeeps(dl[i])
    THEN [status |-> 400, results |-> <<>>]
    ELSE [status |-> 200,
          results |-> RouteResults(v, RouteRank(v, RouteCollect(v, n, dl, js, 1)))]

(***************************************************************************)
(* The route as a state machine.                                           *)
(***************************************************************************)
SearchIdle ==
    /\ variant = "pro"
    /\ files = <<>>
    /\ spc = "idle"
    /\ idx = 0
    /\ filesWithContent = <<>>
    /\ searchResults = <<>>
    /\ response = NoResponse
    /\ fetchedOk = <<>>
    /\ lastJudge = [file |-> 0, judge |-> NoJudge, fallback |-> FALSE]

\* A request arrives with n files; Step 1 starts.
SearchInit ==
    /\ variant \in {"pro", "flash"}
    /\ \E n \in 0..MaxFiles : files = [i \in 1..n |-> i]
    /\ spc = "download"
    /\ idx = 1
    /\ filesWithContent = <<>>
    /\ searchResults = <<>>
    /\ response = NoResponse
    /\ fetchedOk = <<>>
    /\ lastJudge = [file |-> 0, judge |-> NoJudge, fallback |-> FALSE]

\* One iteration of the download loop.
DownloadFile ==
    /\ spc = "download"
    /\ idx <= Len(files)
    /\ \E o \in DownloadOutcomes :
        /\ filesWithContent' =
             IF DownloadKeeps(o) THEN Append(filesWithContent, files[idx])
             ELSE filesWithContent
        /\ fetchedOk' = IF o = "ok" THEN Append(fetchedOk, files[idx]) ELSE fetchedOk
    /\ idx' = idx + 1
    /\ UNCHANGED <<variant, files, spc, searchResults, response, lastJudge>>
    /\ UNCHANGED <<chatVars, packVars, scoreVars, restVars>>

\* The loop is over: 400 when nothing was loaded, Step 2 otherwise.
DownloadDone ==
    /\ spc = "download"
    /\ idx > Len(files)
    /\ IF Len(filesWithContent) = 0
       THEN /\ response' = [status |-> 400, results |-> <<>>]
            /\ spc' = "done"
            /\ idx' = idx
       ELSE /\ response' = response
            /\ spc' = "judge"
            /\ idx' = 1
    /\ UNCHANGED <<variant, files, filesWithContent, searchResults, fetchedOk, lastJudge>>
    /\ UNCHANGED <<chatVars, packVars, scoreVars, restVars>>

\* The model answers for document idx and the answer is parsed.
JudgeDocument ==
    /\ spc = "judge"
    /\ idx <= Len(filesWithContent)
    /\ \E j \in JudgeInputs :
        LET f == filesWithContent[idx] IN
        /\ lastJudge' = [file |-> f, judge |-> j, fallback |-> FALSE]
        /\ IF variant = "pro"
           THEN /\ searchResults' = searchResults \o ProParse(f, j)
                /\ IF ProTakesFallback(j)
                   THEN spc' = "fallback" /\ idx' = idx
                   ELSE spc' = "judge" /\ idx' = idx + 1
           ELSE /\ searchResults' = searchResults \o FlashParse(f, j)
                /\ spc' = "judge"
                /\ idx' = idx + 1
    /\ UNCHANGED <<variant, files, filesWithContent, response, fetchedOk>>
    /\ UNCHANGED <<chatVars, packVars, scoreVars, restVars>>

\* The model answers the fallback prompt for document idx.
FallbackDocument ==
    /\ spc = "fallback"
    /\ searchResults' =
          searchResults \o ProFallback(filesWithContent[idx], lastJudge.judge)
    /\ lastJudge' = [lastJudge EXCEPT !.fallback = TRUE]
    /\ spc' = "judge"
    /\ idx' = idx + 1
    /\ UNCHANGED <<variant, files, filesWithContent, response, fetchedOk>>
    /\ UNCHANGED <<chatVars, packVars, scoreVars, restVars>>

\* Step 3 and the response.
RankAndRespond ==
    /\ spc = "judge"
    /\ idx > Len(filesWithContent)
    /\ searchResults' = RouteRank(variant, searchResults)
    /\ response' = [status |-> 200, results |-> RouteResults(variant, searchResults')]
    /\ spc' = "done"
    /\ UNCHANGED <<variant, files, idx, filesWithContent, fetchedOk, lastJudge>>
    /\ UNCHANGED <<chatVars, packVars, scoreVars, restVars>>

SearchNext ==
    \/ DownloadFile
    \/ DownloadDone
    \/ JudgeDocument
    \/ FallbackDocument
    \/ RankAndRespond

(***************************************************************************)
(* The chat component: sendMessage of DropboxChatInterface.                *)
(* Strings are modelled by their lengths where only the length matters     *)
(* (the question, the prompt) and by token sequences where the content     *)
(* matters (the streamed answer).                                          *)
(***************************************************************************)
MAX_MESSAGE_LENGTH == 200000

\* Lengths of the fixed text of the prompt templates (UTF-16 code units).
SmartPromptFixed == 559
ContextHeadFixed == 301
ContextBlockFixed == 112
ContextTailFixed == 195
NoSourcePromptFixed == 320
PlainPromptFixed == 193

\* Lengths of the questions the user types.
QuestionLengths == {20, 150000}
\* Total length of the interpolated text of the result blocks of one context
\* (names, scores, summaries, key points, sections).
BlocksLengths == {2000, 250000}
\* Texts of token events: the k-th token of an answer is the text k.
Tokens == 1..MaxTokens
\* Largest number of lines the endpoint adds to one chunk.
MaxChunkLines == 2

\* The model's answers the chat's smart search is run on.
ChatJudgeInputs ==
    {j \in JudgeInputs :
        \/ j.kind \in {"throw", "nojson"}
        \/ j.kind = "json" /\ j.relNum /\ j.rel \in {0, 80} /\ j.conf \in {0, 90}
        \/ j.kind = "badjson" /\ j.fb = "num" /\ j.fbScore = 40}

\* ---- messages ----
WelcomeMessage ==
    [id |-> "welcome", type |-> "assistant", run |-> 0, qlen |-> 0,
     content |-> <<>>, err |-> "", sources |-> 0]

UserMessage(run, q) ==
    [id |-> "user", type |-> "user", run |-> run, qlen |-> q,
     content |-> <<>>, err |-> "", sources |-> 0]

\* The message of the done event: the whole answer, with every Dropbox file
\* as a source.
AssistantMessage(run, full, nFiles) ==
    [id |-> "assistant", type |-> "assistant", run |-> run, qlen |-> 0,
     content |-> full, err |-> "", sources |-> nFiles]

\* The message list shows "Smart Search bronnen uit Dropbox" under a message
\* that has sources.
ShowsSources(m) == m.sources > 0

\* The text shown for a caught error.
UserFriendlyMessage(err) ==
    IF err = "AbortError" THEN "Verzoek geannuleerd door timeout"
    ELSE IF err = "Failed to fetch" THEN "Netwerkfout"
    ELSE err

\* Mutant: the catch block records what was streamed so far as the answer.
CatchKeepsPartial(run, err, shown) ==
    [id |-> "assistant", type |-> "assistant", run |-> run, qlen |-> 0,
     content |-> shown, err |-> UserFriendlyMessage(err), sources |-> 0]

\* The message of the catch block; shown is streamingMessage, which the
\* block leaves alone.
CatchMessage(run, err, shown) ==
    [id |-> "error", type |-> "assistant", run |-> run, qlen |-> 0,
     content |-> <<>>, err |-> UserFriendlyMessage(err), sources |-> 0]

\* ---- performSmartSearch ----
\* Mutant: the catch of performSmartSearch rethrows.
PerformSmartSearchRethrows(resp) ==
    IF resp.status = 200
    THEN [threw |-> FALSE, results |-> resp.results]
    ELSE [threw |-> TRUE, results |-> <<>>]

\* A response that is not ok, or a rejected fetch (status -1), throws inside
\* the try and the catch returns [].
PerformSmartSearch(resp) ==
    IF resp.status = 200
    THEN [threw |-> FALSE, results |-> resp.results]
    ELSE [threw |-> FALSE, results |-> <<>>]

\* What the fetch of performSmartSearch can bring: the response of the route
\* on the nFiles Dropbox files, or no response at all (status -1).
SearchOutcomes(v, nFiles) ==
    {[status |-> -1, results |-> <<>>]}
    \cup {RouteResponse(v, nFiles, dl, js) :
            dl \in [1..nFiles -> DownloadOutcomes],
            js \in [1..nFiles -> ChatJudgeInputs]}

\* ---- the prompt ----
\* Which prompt sendMessage builds.
PromptKind(nFiles, results) ==
    IF nFiles > 0
    THEN (IF Len(results) > 0 THEN "smart" ELSE "nosource")
    ELSE "plain"

\* payload.message.length; blocks is the interpolated text of the result blocks.
PayloadLen(kind, q, nFiles, nResults, blocks) ==
    IF kind = "smart"
    THEN SmartPromptFixed + ContextHeadFixed + q + Digits(nResults) + Digits(nFiles)
         + nResults * ContextBlockFixed + blocks + ContextTailFixed + q
    ELSE IF kind = "nosource"
    THEN NoSourcePromptFixed + Digits(nFiles) + q + q
    ELSE PlainPromptFixed + q

BuildPayload(q, nFiles, results, blocks) ==
    LET kind == PromptKind(nFiles, results)
    IN  [kind |-> kind, len |-> PayloadLen(kind, q, nFiles, Len(results), blocks)]

NoPayload == [kind |-> "none", len |-> 0]

\* ---- the stream of /api/chat-stream ----
NoEvent == [ev |-> "none", tok |-> 0]
TokenEvent(t) == [ev |-> "token", tok |-> t]
Events ==
    {TokenEvent(t) : t \in Tokens}
    \cup {[ev |-> e, tok |-> 0] : e \in {"blank", "done", "error"}}

Terminal(e) == e.ev \in {"done", "error"}

TokenCount(lines) == Cardinality({i \in 1..Len(lines) : lines[i].ev = "token"})

\* The token events of lines are the tokens n+1, n+2, ... of the answer.
RECURSIVE InOrder(_, _)
InOrder(lines, n) ==
    IF lines = <<>> THEN TRUE
    ELSE IF Head(lines).ev = "token"
    THEN Head(lines).tok = n + 1 /\ InOrder(Tail(lines), n + 1)
    ELSE InOrder(Tail(lines), n)

\* The lines the endpoint may add next: token events, ended by one done or
\* error event, after which it closes.
NewLines(n) ==
    IF served # "open" THEN {<<>>}
    ELSE {l \in UNION {[1..k -> Events] : k \in 0..MaxChunkLines} :
            /\ \A i \in 1..Len(l) : Terminal(l[i]) => i = Len(l)
            /\ InOrder(l, n)}

\* Mutant: the token text is put in front of the answer.
PrependToken(full, tok) == <<tok>> \o full

\* fullResponse += data.token
AppendToken(full, tok) == full \o <<tok>>

\* The consumer's loop over the complete lines of one chunk.
\*   blank  not a "data: " line: skipped
\*   error  throw new Error(...) inside the try of the line: caught and logged
\*          by that try's catch, the loop goes on
\*   done   the answer is recorded and sendMessage returns
\*   token  appended to fullResponse
RECURSIVE ProcessLines(_, _, _)
ProcessLines(lines, full, errored) ==
    IF lines = <<>> THEN [full |-> full, finished |-> FALSE, errored |-> errored]
    ELSE LET l == Head(lines) IN
         IF l.ev = "error" THEN ProcessLines(Tail(lines), full, TRUE)
         ELSE IF l.ev = "done"
         THEN [full |-> full, finished |-> TRUE, errored |-> errored]
         ELSE IF l.ev = "token" THEN ProcessLines(Tail(lines), AppendToken(full, l.tok), errored)
         ELSE ProcessLines(Tail(lines), full, errored)

\* ---- sendMessage as a state machine ----
ChatIdle ==
    /\ chatFiles = 0
    /\ inputMessage = 0
    /\ messages = <<WelcomeMessage>>
    /\ isLoading = FALSE
    /\ isStreaming = FALSE
    /\ streamingMessage = <<>>
    /\ cpc = "idle"
    /\ question = 0
    /\ relevantFiles = 0
    /\ routeStatus = 0
    /\ payload = NoPayload
    /\ served = "none"
    /\ sent = 0
    /\ buffer = NoEvent
    /\ fullResponse = <<>>
    /\ runs = 0
    /\ errorSeen = FALSE
    /\ aborted = FALSE
    /\ closed = FALSE

\* The component is mounted with an access token and some Dropbox files and
\* shows the welcome message.
ChatInit ==
    /\ chatFiles \in 0..MaxChatFiles
    /\ inputMessage = 0
    /\ messages = <<WelcomeMessage>>
    /\ isLoading = FALSE
    /\ isStreaming = FALSE
    /\ streamingMessage = <<>>
    /\ cpc = "idle"
    /\ question = 0
    /\ relevantFiles = 0
    /\ routeStatus = 0
    /\ payload = NoPayload
    /\ served = "none"
    /\ sent = 0
    /\ buffer = NoEvent
    /\ fullResponse = <<>>
    /\ runs = 0
    /\ errorSeen = FALSE
    /\ aborted = FALSE
    /\ closed = FALSE
    /\ variant \in {"pro", "flash"}
    /\ files = <<>>
    /\ spc = "idle"
    /\ idx = 0
    /\ filesWithContent = <<>>
    /\ searchResults = <<>>
    /\ response = NoResponse
    /\ fetchedOk = <<>>
    /\ lastJudge = [file |-> 0, judge |-> NoJudge, fallback |-> FALSE]
    /\ PackIdle
    /\ ScoreIdle
    /\ RestIdle

\* The finally block, and sendMessage is over: its locals are gone.
Finish(msgs) ==
    /\ messages' = msgs
    /\ fullResponse' = <<>>
    /\ isLoading' = FALSE
    /\ isStreaming' = FALSE
    /\ cpc' = "idle"
    /\ served' = "none"
    /\ sent' = 0
    /\ buffer' = NoEvent

\* An error reaches the catch block of sendMessage.
Fail(run, err) ==
    /\ Finish(Append(messages, CatchMessage(run, err, streamingMessage)))
    /\ UNCHANGED streamingMessage

\* The length check, then the request to /api/chat-stream.
CheckAndFetch(run, pl) ==
    /\ payload' = pl
    /\ IF pl.len > MAX_MESSAGE_LENGTH
       THEN Fail(run, "te lang")
       ELSE /\ cpc' = "fetching"
            /\ UNCHANGED <<messages, isLoading, isStreaming, streamingMessage,
                           served, sent, buffer, fullResponse>>

\* The user types a question.
TypeQuestion ==
    /\ cpc = "idle"
    /\ ~closed
    /\ ~isLoading
    /\ runs < MaxQuestions
    /\ inputMessage' \in QuestionLengths
    /\ UNCHANGED <<closed, chatFiles, messages, isLoading, isStreaming, streamingMessage,
                   cpc, question, relevantFiles, routeStatus, payload,
                   served, sent, buffer, fullResponse, runs, errorSeen, aborted>>
    /\ UNCHANGED <<searchVars, packVars, scoreVars, restVars>>

\* sendMessage up to its first await.
SendMessage ==
    /\ cpc = "idle"
    /\ ~closed
    /\ inputMessage # 0
    /\ ~isLoading
    /\ runs' = runs + 1
    /\ question' = inputMessage
    /\ inputMessage' = 0
    /\ errorSeen' = FALSE
    /\ aborted' = FALSE
    /\ fullResponse' = <<>>
    /\ relevantFiles' = 0
    /\ routeStatus' = 0
    /\ IF chatFiles > 0
       THEN /\ messages' = Append(messages, UserMessage(runs', inputMessage))
            /\ isLoading' = TRUE
            /\ isStreaming' = TRUE
            /\ streamingMessage' = <<>>
            /\ cpc' = "searching"
            /\ payload' = NoPayload
            /\ UNCHANGED <<served, sent, buffer>>
       ELSE LET pl == BuildPayload(inputMessage, chatFiles, <<>>, 0) IN
            /\ payload' = pl
            /\ streamingMessage' = <<>>
            /\ served' = "none"
            /\ sent' = 0
            /\ buffer' = NoEvent
            /\ IF pl.len > MAX_MESSAGE_LENGTH
               THEN /\ messages' = messages \o <<UserMessage(runs', inputMessage),
                                                 CatchMessage(runs', "te lang", <<>>)>>
                    /\ isLoading' = FALSE
                    /\ isStreaming' = FALSE
                    /\ cpc' = "idle"
               ELSE /\ messages' = Append(messages, UserMessage(runs', inputMessage))
                    /\ isLoading' = TRUE
                    /\ isStreaming' = TRUE
                    /\ cpc' = "fetching"
    /\ UNCHANGED <<closed, chatFiles>>
    /\ UNCHANGED <<searchVars, packVars, scoreVars, restVars>>

\* performSmartSearch resolves: the route has run on the Dropbox files (or
\* the request failed), the prompt is built and checked.
SearchReturns ==
    /\ cpc = "searching"
    /\ \E resp \in SearchOutcomes(variant, chatFiles), blocks \in BlocksLengths :
        LET out == PerformSmartSearch(resp)
        IN  /\ routeStatus' = resp.status
            /\ relevantFiles' = Len(out.results)
            /\ IF out.threw
               THEN Fail(runs, "Smart search failed") /\ UNCHANGED payload
               ELSE CheckAndFetch(runs, BuildPayload(question, chatFiles, out.results, blocks))
    /\ UNCHANGED <<closed, chatFiles, inputMessage, question, runs, errorSeen, aborted>>
    /\ UNCHANGED <<searchVars, packVars, scoreVars, restVars>>

\* fetch('/api/chat-stream') settles.
FetchResponds ==
    /\ cpc = "fetching"
    /\ \E o \in {"ok", "http", "reject"} :
        IF o = "ok"
        THEN /\ cpc' = "reading"
             /\ served' = "open"
             /\ sent' = 0
             /\ buffer' = NoEvent
             /\ UNCHANGED <<messages, isLoading, isStreaming, streamingMessage,
                            fullResponse>>
        ELSE Fail(runs, IF o = "http" THEN "Server fout" ELSE "Failed to fetch")
    /\ UNCHANGED <<closed, chatFiles, inputMessage, question, relevantFiles,
                   routeStatus, payload, runs, errorSeen, aborted>>
    /\ UNCHANGED <<searchVars, packVars, scoreVars, restVars>>

\* reader.read() resolves with a chunk: the rest of the buffered line, then
\* new lines, the last of which may be cut (cut) and stay in the buffer.
\* The endpoint may also stop without a final event (stops).
ReadChunk ==
    /\ cpc = "reading"
    /\ \E new \in NewLines(sent), cut \in BOOLEAN, stops \in BOOLEAN :
        /\ buffer # NoEvent \/ new # <<>>
        /\ cut => new # <<>>
        /\ stops => served = "open"
        /\ LET whole == (IF buffer = NoEvent THEN <<>> ELSE <<buffer>>)
                        \o (IF cut THEN SubSeq(new, 1, Len(new) - 1) ELSE new)
               r == ProcessLines(whole, fullResponse, FALSE)
               ends == stops \/ \E i \in 1..Len(new) : Terminal(new[i])
           IN  /\ errorSeen' = (errorSeen \/ r.errored)
               /\ aborted' = (aborted \/ r.errored)
               /\ IF r.finished
                  THEN /\ Finish(Append(messages,
                                        AssistantMessage(runs, r.full, chatFiles)))
                       /\ streamingMessage' = <<>>
                  ELSE /\ fullResponse' = r.full
                       /\ streamingMessage' =
                            IF r.full # fullResponse THEN r.full ELSE streamingMessage
                       /\ buffer' = IF cut THEN new[Len(new)] ELSE NoEvent
                       /\ served' = IF ends THEN "ended" ELSE served
                       /\ sent' = sent + TokenCount(new)
                       /\ UNCHANGED <<messages, isLoading, isStreaming, cpc>>
    /\ UNCHANGED <<closed, chatFiles, inputMessage, question, relevantFiles,
                   routeStatus, payload, runs>>
    /\ UNCHANGED <<searchVars, packVars, scoreVars, restVars>>

\* reader.read() reports the end of the stream: the loop breaks.  No done
\* event was read, or sendMessage would have returned.
ReadEnd ==
    /\ cpc = "reading"
    /\ served = "ended"
    /\ buffer = NoEvent
    /\ aborted' = TRUE
    /\ Finish(messages)
    /\ UNCHANGED <<closed, chatFiles, inputMessage, streamingMessage, question,
                   relevantFiles, routeStatus, payload, runs, errorSeen>>
    /\ UNCHANGED <<searchVars, packVars, scoreVars, restVars>>

\* reader.read() rejects: the connection failed mid-flight.
ReadFails ==
    /\ cpc = "reading"
    /\ aborted' = TRUE
    /\ Fail(runs, "network error")
    /\ UNCHANGED <<closed, chatFiles, inputMessage, question, relevantFiles,
                   routeStatus, payload, runs, errorSeen>>
    /\ UNCHANGED <<searchVars, packVars, scoreVars, restVars>>

ChatNext ==
    \/ TypeQuestion
    \/ SendMessage
    \/ SearchReturns
    \/ FetchResponds
    \/ ReadChunk
    \/ ReadEnd
    \/ ReadFails

SpecChat == ChatInit /\ [][ChatNext]_vars

(***************************************************************************)
(* SpecCancel: the chat without Dropbox files, where the user may leave    *)
(* the chat while an answer streams.  The component has no cleanup effect, *)
(* no AbortController and never calls reader.cancel(): leaving changes     *)
(* nothing in the run of sendMessage, which goes on reading.               *)
(***************************************************************************)
CancelInit == ChatInit /\ chatFiles = 0

\* The user leaves the chat while the answer streams.
CloseChat ==
    /\ cpc = "reading"
    /\ ~closed
    /\ closed' = TRUE
    /\ UNCHANGED <<chatFiles, inputMessage, messages, isLoading, isStreaming,
                   streamingMessage, cpc, question, relevantFiles, routeStatus,
                   payload, served, sent, buffer, fullResponse, runs, errorSeen,
                   aborted>>
    /\ UNCHANGED <<searchVars, packVars, scoreVars, restVars>>

CancelNext ==
    \/ TypeQuestion
    \/ SendMessage
    \/ FetchResponds
    \/ ReadChunk
    \/ ReadEnd
    \/ ReadFails
    \/ CloseChat

SpecCancel == CancelInit /\ [][CancelNext]_vars

(***************************************************************************)
(* Claims about the chat component.                                        *)
(***************************************************************************)
LastMessage == messages[Len(messages)]

\* C4: once the consumer has read an error event, the stream is aborted (the
\* run is over, nothing more is read) and the error is surfaced: the last
\* message of the conversation is the error message of this run.
ErrorEventAbortsAndSurfaces ==
    errorSeen =>
        /\ cpc = "idle"
        /\ LastMessage.id = "error"
        /\ LastMessage.run = runs

\* C5: when the stream of a run errored or ended before its done event, no
\* message of that run carries token text: the partial answer is not recorded.
PartialAnswerDiscarded ==
    aborted =>
        \A i \in 1..Len(messages) :
            messages[i].run = runs => messages[i].content = <<>>

\* C5 witness: a run whose stream failed after tokens had been accumulated
\* has ended with the error message.
PartialAnswerDropped ==
    /\ aborted
    /\ cpc = "idle"
    /\ streamingMessage # <<>>
    /\ LastMessage.id = "error"

NoSourceAnswerShowsNoSources ==
    \A i \in 1..Len(messages) :
        (/\ messages[i].id = "assistant"
         /\ messages[i].run = runs
         /\ payload.kind = "nosource")
        => ~ShowsSources(messages[i])

(***************************************************************************)
(* SpecPack: the context packer as a state machine.  A call is made with   *)
(* the documents at hand (the uploaded PDFs, or the Dropbox files that     *)
(* were downloaded) and a question.                                        *)
(***************************************************************************)
PackInit ==
    /\ SearchIdle
    /\ ChatIdle
    /\ ScoreIdle
    /\ RestIdle
    /\ packKind \in {"pdf", "dropbox"}
    /\ uploadedPDFs \in DocumentLists(MaxPDFs) \cup UniformLists(MaxUniformPDFs)
    /\ userQuestion \in Questions
    /\ processedPDFs = <<>>
    /\ totalContext = 0
    /\ includedPDFs = 0
    /\ included = <<>>
    /\ manifest = <<>>
    /\ ppc = "idle"

\* The call up to the loop: '' without documents (the PDF chat); otherwise
\* the documents are scored and sorted and the context opens with the
\* question.
PackStart ==
    /\ ppc = "idle"
    /\ IF uploadedPDFs = <<>> /\ packKind = "pdf"
       THEN /\ ppc' = "done"
            /\ UNCHANGED <<processedPDFs, totalContext>>
       ELSE /\ processedPDFs' =
                PackSort([i \in 1..Len(uploadedPDFs) |->
                            Processed(uploadedPDFs[i], userQuestion)])
            /\ totalContext' =
                ContextHeadLen(packKind, Len(uploadedPDFs), userQuestion)
            /\ ppc' = "loop"
    /\ UNCHANGED <<packKind, uploadedPDFs, userQuestion, includedPDFs, included,
                   manifest>>
    /\ UNCHANGED <<searchVars, chatVars, scoreVars, restVars>>

\* One iteration of the loop: the next document is added if the context
\* stays within the budget; otherwise the summary of the rest is added if
\* that fits, and the loop is left.
PackDocument ==
    /\ ppc = "loop"
    /\ includedPDFs < Len(processedPDFs)
    /\ LET pdf == processedPDFs[includedPDFs + 1]
           pdfHeader == BlockLen(packKind, pdf, includedPDFs + 1, Len(processedPDFs))
           remainingPDFs == Remaining(processedPDFs, includedPDFs)
           summaryHeader == SummaryLen(packKind, remainingPDFs)
       IN  IF totalContext + pdfHeader > PackBudget(packKind)
           THEN /\ IF totalContext + summaryHeader <= PackBudget(packKind)
                   THEN /\ totalContext' = totalContext + summaryHeader
                        /\ manifest' = Names(remainingPDFs)
                   ELSE UNCHANGED <<totalContext, manifest>>
                /\ ppc' = "done"
                /\ UNCHANGED <<includedPDFs, included>>
           ELSE /\ totalContext' = totalContext + pdfHeader
                /\ includedPDFs' = includedPDFs + 1
                /\ included' = Append(included, pdf.name)
                /\ UNCHANGED <<manifest, ppc>>
    /\ UNCHANGED <<packKind, uploadedPDFs, userQuestion, processedPDFs>>
    /\ UNCHANGED <<searchVars, chatVars, scoreVars, restVars>>

\* The loop has gone through every document: return totalContext.
PackReturn ==
    /\ ppc = "loop"
    /\ includedPDFs = Len(processedPDFs)
    /\ ppc' = "done"
    /\ UNCHANGED <<packKind, uploadedPDFs, userQuestion, processedPDFs,
                   totalContext, includedPDFs, included, manifest>>
    /\ UNCHANGED <<searchVars, chatVars, scoreVars, restVars>>

PackNext ==
    \/ PackStart
    \/ PackDocument
    \/ PackReturn

SpecPack == PackInit /\ [][PackNext]_vars

\* C1: the context the packer returns is never longer than the budget.
PackWithinBudget ==
    ppc = "done" => totalContext <= PackBudget(packKind)

(***************************************************************************)
(* SpecScore: a question is given to extractSearchTerms, a document text   *)
(* is scored with the terms, and occurrences of terms of the set are       *)
(* appended to the text and the text is scored again.                      *)
(***************************************************************************)
ScoreInit ==
    /\ SearchIdle
    /\ ChatIdle
    /\ PackIdle
    /\ RestIdle
    /\ words \in QuestionWords(MaxWords)
    /\ content \in Contents(MaxPieces)
    /\ searchTerms = <<>>
    /\ textScore = 0
    /\ prevScore = 0
    /\ appended = 0
    /\ tpc = "idle"

ExtractTerms ==
    /\ tpc = "idle"
    /\ searchTerms' = ExtractSearchTerms(words)
    /\ tpc' = "terms"
    /\ UNCHANGED <<words, content, textScore, prevScore, appended>>
    /\ UNCHANGED <<searchVars, chatVars, packVars, restVars>>

ScoreContent ==
    /\ tpc = "terms"
    /\ textScore' = PrioritizeText(content, searchTerms)
    /\ prevScore' = textScore'
    /\ tpc' = "scored"
    /\ UNCHANGED <<words, searchTerms, content, appended>>
    /\ UNCHANGED <<searchVars, chatVars, packVars, restVars>>

\* One more occurrence of a term of the set is appended to the text, and
\* the text is scored again with the same terms.
AppendOccurrence ==
    /\ tpc \in {"scored", "appended"}
    /\ appended < MaxAppends
    /\ \E k \in 1..Len(searchTerms) :
        content' = Append(content, searchTerms[k].text)
    /\ prevScore' = textScore
    /\ textScore' = PrioritizeText(content', searchTerms)
    /\ appended' = appended + 1
    /\ tpc' = "appended"
    /\ UNCHANGED <<words, searchTerms>>
    /\ UNCHANGED <<searchVars, chatVars, packVars, restVars>>

ScoreNext ==
    \/ ExtractTerms
    \/ ScoreContent
    \/ AppendOccurrence

SpecScore == ScoreInit /\ [][ScoreNext]_vars

\* C19: the terms extractSearchTerms returns are pairwise different when
\* compared without regard to capitals.
NoDuplicateTerms ==
    tpc # "idle" =>
        \A i, k \in 1..Len(searchTerms) :
            i # k => searchTerms[i].text # searchTerms[k].text

\* C20: appending one more occurrence of a term of the set to the text does
\* not lower the score.
ScoreMonotone ==
    tpc = "appended" => textScore >= prevScore

Init == SearchInit /\ ChatIdle /\ PackIdle /\ ScoreIdle /\ RestIdle

Next == SearchNext

Spec == Init /\ [][Next]_vars

(***************************************************************************)
(* SpecAcquire: the document acquisition step of the route on its own,     *)
(* with requests of up to MaxAcquireFiles files.                           *)
(***************************************************************************)
AcquireInit ==
    /\ variant \in {"pro", "flash"}
    /\ \E n \in 0..MaxAcquireFiles : files = [i \in 1..n |-> i]
    /\ spc = "download"
    /\ idx = 1
    /\ filesWithContent = <<>>
    /\ searchResults = <<>>
    /\ response = NoResponse
    /\ fetchedOk = <<>>
    /\ lastJudge = [file |-> 0, judge |-> NoJudge, fallback |-> FALSE]
    /\ ChatIdle
    /\ PackIdle
    /\ ScoreIdle
    /\ RestIdle

AcquireNext ==
    \/ DownloadFile
    \/ DownloadDone

SpecAcquire == AcquireInit /\ [][AcquireNext]_vars

(***************************************************************************)
(* Properties of the smart-search route.                                   *)
(***************************************************************************)
Ranked == spc = "done" /\ response.status = 200

\* C2: a judgment whose relevanceScore is 0 is never collected as a result
\* and never appears in the result list the route returns, whatever its
\* confidence (orig is the relevanceScore the model judged).
ZeroRelevanceExcluded ==
    /\ \A i \in 1..Len(searchResults) : searchResults[i].orig # 0
    /\ \A i \in 1..Len(response.results) : response.results[i].orig # 0

\* C2 witness: a judgment of relevance 0 at confidence 90 was handled last
\* and the route has answered.
ZeroRelevanceJudged ==
    /\ Ranked
    /\ lastJudge.judge.kind = "json"
    /\ lastJudge.judge.relNum
    /\ lastJudge.judge.rel = 0
    /\ lastJudge.judge.conf = 90

\* C3 (as claimed): once a document whose answer held no parseable JSON (no
\* JSON object found, or JSON.parse threw) has been handled, the fallback
\* prompt was attempted for it.
FallbackAlwaysAttempted ==
    (spc \in {"judge", "done"} /\ lastJudge.judge.kind \in {"nojson", "badjson"})
        => lastJudge.fallback

\* C7: the files acquisition keeps are exactly the files whose fetch and
\* extraction succeeded, in request order, whatever the other files did.
AcquireKeepsExactlySucceeded == filesWithContent = fetchedOk

\* C7 witness: 5 files, 2 of them failed, the loop is over and exactly the
\* other 3 are kept.
AcquireThreeOfFive ==
    /\ Len(files) = 5
    /\ spc = "judge"
    /\ Len(filesWithContent) = 3
    /\ filesWithContent = fetchedOk

\* C9: after ranking, each result's relevanceScore is an integer nearest to
\* (judged relevanceScore * confidence / 100); 80 at confidence 50 becomes 40
\* and 50 at confidence 90 becomes 45.
RescaledToNearest ==
    (Ranked /\ variant = "pro") =>
        \A i \in 1..Len(searchResults) :
            LET r == searchResults[i]
                d == 100 * r.relevanceScore - r.orig * r.confidence
            IN  /\ d <= 50 /\ -d <= 50
                /\ (r.orig = 80 /\ r.confidence = 50) => r.relevanceScore = 40
                /\ (r.orig = 50 /\ r.confidence = 90) => r.relevanceScore = 45

\* C9 witness: a ranked list holding 80 at confidence 50 and 12 at
\* confidence 90 (10.8, rounded up to 11).
RescaledExamples ==
    /\ Ranked /\ variant = "pro"
    /\ \E i, k \in 1..Len(searchResults) :
        /\ searchResults[i].orig = 80 /\ searchResults[i].confidence = 50
        /\ searchResults[i].relevanceScore = 40
        /\ searchResults[k].orig = 12 /\ searchResults[k].confidence = 90
        /\ searchResults[k].relevanceScore = 11

\* C10: the list the Pro route returns is ordered by descending rescaled
\* relevanceScore, equal scores by descending confidence.
RankedDescending ==
    (Ranked /\ variant = "pro") =>
        \A i, k \in 1..Len(response.results) :
            i < k =>
                LET a == response.results[i]
                    b == response.results[k]
                IN  \/ a.relevanceScore > b.relevanceScore
                    \/ /\ a.relevanceScore = b.relevanceScore
                       /\ a.confidence >= b.confidence

\* C10 witness: 50 at confidence 90 (45) is returned before 80 at confidence
\* 50 (40) although it was judged after it, and a tie at 40 is present.
RankedScenario ==
    /\ Ranked /\ variant = "pro"
    /\ Len(response.results) = 3
    /\ response.results[1].orig = 50 /\ response.results[1].confidence = 90
    /\ response.results[1].file > response.results[3].file
    /\ response.results[2].orig = 50 /\ response.results[2].confidence = 80
    /\ response.results[3].orig = 80 /\ response.results[3].confidence = 50

\* C11: the list the Pro route returns holds exactly the ranked results
\* whose rescaled score is greater than 10: none at or below 10 is returned
\* and none above 10 is dropped (searchResults is the ranked list before the
\* filter).
FilteredAboveFloor ==
    (Ranked /\ variant = "pro") =>
        /\ \A i \in 1..Len(response.results) :
            /\ response.results[i].relevanceScore > 10
            /\ \E k \in 1..Len(searchResults) : searchResults[k] = response.results[i]
        /\ \A k \in 1..Len(searchResults) :
            searchResults[k].relevanceScore > 10 =>
                \E i \in 1..Len(response.results) : response.results[i] = searchResults[k]
        /\ Len(response.results) =
            Cardinality({k \in 1..Len(searchResults) : searchResults[k].relevanceScore > 10})

\* C11 witness: a result rescaled to exactly 10 (12 at confidence 80) was
\* dropped and one rescaled to 11 (12 at confidence 90) was returned.
FilteredAtTheFloor ==
    /\ Ranked /\ variant = "pro"
    /\ \E k \in 1..Len(searchResults) :
        /\ searchResults[k].relevanceScore = 10
        /\ \A i \in 1..Len(response.results) : response.results[i].file # searchResults[k].file
    /\ \E i \in 1..Len(response.results) : response.results[i].relevanceScore = 11

\* Position of the document called name in the list given to the packer.
UploadIndex(name) == CHOOSE i \in 1..Len(uploadedPDFs) : uploadedPDFs[i].name = name

\* C12: the blocks of the context are those of the first includedPDFs sorted
\* documents, in that order; the sorted documents are in descending score
\* order, and of two documents with the same score the one given first comes
\* first.
PackedInScoreOrder ==
    ppc # "idle" =>
        /\ included = Names(SubSeq(processedPDFs, 1, includedPDFs))
        /\ \A i, k \in 1..Len(processedPDFs) :
            i < k =>
                \/ processedPDFs[i].relevanceScore > processedPDFs[k].relevanceScore
                \/ /\ processedPDFs[i].relevanceScore = processedPDFs[k].relevanceScore
                   /\ UploadIndex(processedPDFs[i].name) < UploadIndex(processedPDFs[k].name)

\* C12 witness: three blocks were packed; the document given second has the
\* highest score and comes first, the other two have the same score and keep
\* the order in which they were given.
PackedTie ==
    /\ ppc = "done"
    /\ Len(included) = 3
    /\ processedPDFs[1].relevanceScore > processedPDFs[2].relevanceScore
    /\ processedPDFs[2].relevanceScore = processedPDFs[3].relevanceScore
    /\ UploadIndex(included[1]) = 2
    /\ UploadIndex(included[2]) = 1
    /\ UploadIndex(included[3]) = 3

\* Length of the opening text and the first k blocks.
RECURSIVE PackedLen(_)
PackedLen(k) ==
    IF k = 0 THEN ContextHeadLen(packKind, Len(processedPDFs), userQuestion)
    ELSE PackedLen(k - 1) + BlockLen(packKind, processedPDFs[k], k, Len(processedPDFs))

\* The documents that got no block.
NotIncluded == SubSeq(processedPDFs, includedPDFs + 1, Len(processedPDFs))

PackBlockAlone(k) ==
    BlockLen(packKind, processedPDFs[k], k, Len(processedPDFs))

\* C14: the context is the opening text, whole blocks and at most the
\* summary: every block holds the whole text of its document, and a document
\* whose block alone exceeds the budget gets no block (a single such document
\* leaves the opening text with or without the summary).
NoTruncatedBlock ==
    ppc = "done" =>
        /\ \A k \in 1..includedPDFs :
            processedPDFs[k].processedLen
                = uploadedPDFs[UploadIndex(processedPDFs[k].name)].len
        /\ \A k \in 1..Len(processedPDFs) :
            PackBlockAlone(k) > PackBudget(packKind) => k > includedPDFs
        /\ processedPDFs # <<>> =>
            totalContext = PackedLen(includedPDFs)
                + (IF manifest # <<>> THEN SummaryLen(packKind, NotIncluded) ELSE 0)

\* C14 witness: the only document has 250,000 characters; the packer
\* returned the opening text and the summary naming it, and no block.
OversizedDocumentListed ==
    /\ ppc = "done"
    /\ Len(uploadedPDFs) = 1
    /\ uploadedPDFs[1].len > PackBudget(packKind)
    /\ includedPDFs = 0
    /\ included = <<>>
    /\ manifest = <<uploadedPDFs[1].name>>
    /\ totalContext <= PackBudget(packKind)

\* C15: packing an empty list of documents returns a context that holds the
\* opening text (question and instructions, with the count of 0 documents),
\* within the budget.
EmptyListGetsHeader ==
    (ppc = "done" /\ uploadedPDFs = <<>>
        /\ ContextHeadLen(packKind, 0, userQuestion) <= PackBudget(packKind)) =>
        totalContext = ContextHeadLen(packKind, 0, userQuestion)

\* C16: a run whose question and instructions alone (the prompt without any
\* document content) exceed the budget, and which ended with the budget
\* error, has not sent the search request that downloads and judges the
\* documents.
BudgetErrorBeforeFetch ==
    (/\ cpc = "idle"
     /\ runs > 0
     /\ LastMessage.run = runs
     /\ LastMessage.id = "error"
     /\ LastMessage.err = "te lang"
     /\ PayloadLen("nosource", question, chatFiles, 0, 0) > MAX_MESSAGE_LENGTH)
    => routeStatus = 0

\* a is an initial part of b.
IsPrefix(a, b) == Len(a) <= Len(b) /\ SubSeq(b, 1, Len(a)) = a

\* The tokens 1..Len(a) in the order in which the endpoint emitted them.
InArrivalOrder(a) == \A i \in 1..Len(a) : a[i] = i

NoDeltaAfterCancel ==
    [][closed =>
        /\ served' # "open"
        /\ sent' = sent
        /\ fullResponse' = fullResponse]_vars

\* C21 (as claimed): once a document whose parsed relevanceScore is not a
\* number within 0..100 has been handled, searchResults holds no entry for
\* it and no second prompt was sent for it.
InvalidScoreSkipped ==
    (/\ spc \in {"judge", "done"}
     /\ lastJudge.judge.kind = "json"
     /\ ~ProValidScore(lastJudge.judge))
        => /\ \A i \in 1..Len(searchResults) : searchResults[i].file # lastJudge.file
           /\ ~lastJudge.fallback

(***************************************************************************)
(* SpecJudge: Step 2 of the route with the generateContent call of a       *)
(* document in flight between the moment it is sent and the moment its     *)
(* answer arrives.  The model may take any time to answer, or never        *)
(* answer: the route sets no timeout on the call.                          *)
(***************************************************************************)
JudgeInit ==
    /\ ChatIdle
    /\ PackIdle
    /\ ScoreIdle
    /\ LibIdle
    /\ ConnIdle
    /\ SendIdle
    /\ ExtractIdle
    /\ variant \in {"pro", "flash"}
    /\ \E n \in 1..MaxFiles : files = [i \in 1..n |-> i]
    /\ filesWithContent = files
    /\ fetchedOk = files
    /\ spc = "judge"
    /\ idx = 1
    /\ searchResults = <<>>
    /\ response = NoResponse
    /\ lastJudge = [file |-> 0, judge |-> NoJudge, fallback |-> FALSE]
    /\ pending = 0
    /\ started = {}

\* for (const file of ...) { ... await model.generateContent(prompt): the
\* call for document idx is sent and the loop waits for it.
StartJudgment ==
    /\ spc = "judge"
    /\ pending = 0
    /\ idx <= Len(filesWithContent)
    /\ pending' = filesWithContent[idx]
    /\ started' = started \cup {filesWithContent[idx]}
    /\ UNCHANGED searchVars
    /\ UNCHANGED <<chatVars, packVars, scoreVars, extractVars, sendVars, connVars, libVars>>

\* The awaited call settles and its answer is parsed.
JudgmentAnswers ==
    /\ spc = "judge"
    /\ pending # 0
    /\ \E j \in JudgeInputs :
        LET f == pending IN
        /\ lastJudge' = [file |-> f, judge |-> j, fallback |-> FALSE]
        /\ searchResults' = searchResults \o
             (IF variant = "pro" THEN ProParse(f, j) ELSE FlashParse(f, j))
        /\ IF variant = "pro" /\ ProTakesFallback(j)
           THEN spc' = "fallback" /\ idx' = idx
           ELSE spc' = "judge" /\ idx' = idx + 1
    /\ pending' = 0
    /\ UNCHANGED <<variant, files, filesWithContent, response, fetchedOk, started>>
    /\ UNCHANGED <<chatVars, packVars, scoreVars, extractVars, sendVars, connVars, libVars>>

JudgeNext ==
    \/ StartJudgment
    \/ JudgmentAnswers
    \/ FallbackDocument
    \/ RankAndRespond

SpecJudge == JudgeInit /\ [][JudgeNext]_vars

\* C22 (as claimed): while the call for one document is outstanding and
\* another document has not been judged yet, the judgment of another
\* document can start.
OtherJudgmentsNotBlocked ==
    (pending # 0 /\ \E i \in 1..Len(filesWithContent) : filesWithContent[i] \notin started)
        => ENABLED StartJudgment

(***************************************************************************)
(* SpecExtract: get-file-content validates the text it extracted, and the  *)
(* download loop of the caller keeps the document or not.  A text is a     *)
(* sequence of characters, "x" for a character that is not whitespace and  *)
(* " " for a whitespace character.                                         *)
(***************************************************************************)
Texts(n) == UNION {[1..k -> {"x", " "}] : k \in 0..n}

\* Number of characters of the text that are not whitespace.
NonWhitespace(t) == Cardinality({i \in 1..Len(t) : t[i] # " "})

\* String.prototype.trim: whitespace is removed at both ends only.
Trim(t) ==
    IF \A i \in 1..Len(t) : t[i] = " " THEN <<>>
    ELSE LET first == CHOOSE i \in 1..Len(t) :
                          t[i] # " " /\ \A k \in 1..(i - 1) : t[k] = " "
             last == CHOOSE i \in 1..Len(t) :
                          t[i] # " " /\ \A k \in (i + 1)..Len(t) : t[k] = " "
         IN  SubSeq(t, first, last)

\* !textContent || textContent.trim().length < 10
TooShort(t) == t = <<>> \/ Len(Trim(t)) < 10

\* The status get-file-content answers with: the throw is caught and
\* answered with 500, otherwise success with the content.
GetFileContentStatus(t) == IF TooShort(t) THEN 500 ELSE 200

ExtractInit ==
    /\ SearchIdle
    /\ ChatIdle
    /\ PackIdle
    /\ ScoreIdle
    /\ LibIdle
    /\ ConnIdle
    /\ SendIdle
    /\ JudgeIdle
    /\ textContent \in Texts(MaxTextLen)
    /\ extractStatus = 0
    /\ acquired = FALSE
    /\ epc = "extracted"

\* get-file-content validates the extracted text and responds.
ValidateContent ==
    /\ epc = "extracted"
    /\ extractStatus' = GetFileContentStatus(textContent)
    /\ epc' = "responded"
    /\ UNCHANGED <<textContent, acquired>>
    /\ UNCHANGED <<searchVars, chatVars, packVars, scoreVars, judgeVars, sendVars, connVars, libVars>>

\* The download loop: if (response.ok) { if (data.success) push }.
KeepDownloaded ==
    /\ epc = "responded"
    /\ acquired' = (extractStatus = 200)
    /\ epc' = "done"
    /\ UNCHANGED <<textContent, extractStatus>>
    /\ UNCHANGED <<searchVars, chatVars, packVars, scoreVars, judgeVars, sendVars, connVars, libVars>>

ExtractNext ==
    \/ ValidateContent
    \/ KeepDownloaded

SpecExtract == ExtractInit /\ [][ExtractNext]_vars

\* C23 (as claimed): a text with fewer than 10 characters that are not
\* whitespace is dropped by acquisition and never reaches scoring.
ShortTextDropped ==
    (epc = "done" /\ NonWhitespace(textContent) < 10) => ~acquired

\* C24 (as claimed): the part of the score that does not come from the
\* terms is 3 for every occurrence of an instructional word in the text.
InstructionalBonusPerOccurrence ==
    tpc = "scored" =>
        textScore - TermsScore(content, searchTerms)
            = 3 * Cardinality({i \in 1..Len(content) : content[i] = "stap"})

(***************************************************************************)
(* SpecSend: calls of sendMessage between renders.  sendMessage is created *)
(* anew by every render and reads the isLoading and inputMessage of that   *)
(* render; the setters change what the next render will see.  A dropbox    *)
(* access token is present throughout.                                     *)
(***************************************************************************)
SendInit ==
    /\ SearchIdle
    /\ ChatIdle
    /\ PackIdle
    /\ ScoreIdle
    /\ LibIdle
    /\ ConnIdle
    /\ JudgeIdle
    /\ ExtractIdle
    /\ closureLoading = FALSE
    /\ closureInput = 0
    /\ stateLoading = FALSE
    /\ stateInput = 0
    /\ inFlight = 0
    /\ invoked = 0

\* onChange of the textarea, which is disabled while isLoading.
TypeInput ==
    /\ ~closureLoading
    /\ \E n \in QuestionLengths \cup {0} : stateInput' = n
    /\ UNCHANGED <<closureLoading, closureInput, stateLoading, inFlight, invoked>>
    /\ UNCHANGED <<searchVars, chatVars, packVars, scoreVars, judgeVars, extractVars, connVars, libVars>>

\* React renders: the handlers of the new render see the state as last set.
Render ==
    /\ closureLoading' = stateLoading
    /\ closureInput' = stateInput
    /\ UNCHANGED <<stateLoading, stateInput, inFlight, invoked>>
    /\ UNCHANGED <<searchVars, chatVars, packVars, scoreVars, judgeVars, extractVars, connVars, libVars>>

\* The guard of sendMessage on what its render captured.
SendGuardReturns == closureInput = 0 \/ closureLoading

\* sendMessage of the current render is called: it returns at the guard, or
\* clears the input, sets isLoading and starts its run.
InvokeSendMessage ==
    /\ invoked < MaxInvocations
    /\ invoked' = invoked + 1
    /\ IF SendGuardReturns
       THEN UNCHANGED <<stateLoading, stateInput, inFlight>>
       ELSE /\ stateLoading' = TRUE
            /\ stateInput' = 0
            /\ inFlight' = inFlight + 1
    /\ UNCHANGED <<closureLoading, closureInput>>
    /\ UNCHANGED <<searchVars, chatVars, packVars, scoreVars, judgeVars, extractVars, connVars, libVars>>

\* A run ends: finally { setIsLoading(false) }.
RunEnds ==
    /\ inFlight > 0
    /\ inFlight' = inFlight - 1
    /\ stateLoading' = FALSE
    /\ UNCHANGED <<closureLoading, closureInput, stateInput, invoked>>
    /\ UNCHANGED <<searchVars, chatVars, packVars, scoreVars, judgeVars, extractVars, connVars, libVars>>

SendNext ==
    \/ TypeInput
    \/ Render
    \/ InvokeSendMessage
    \/ RunEnds

SpecSend == SendInit /\ [][SendNext]_vars

\* C25 (as claimed): at no time are two runs of sendMessage in flight.
AtMostOneRunInFlight == inFlight <= 1

\* C26 (as claimed): once the runs of sendMessage are over, every question
\* that was accepted has exactly one assistant message in the conversation,
\* the answer or an error message.
EveryQuestionAnswered ==
    (cpc = "idle" /\ runs > 0) =>
        \A r \in 1..runs :
            Cardinality({i \in 1..Len(messages) :
                messages[i].type = "assistant" /\ messages[i].run = r}) = 1

(***************************************************************************)
(* SpecConnect: DropboxConnect (connectToDropbox, handleAuthSuccess,       *)
(* loadDropboxFiles, disconnectDropbox) and the handlers of its parent.    *)
(* connectToDropbox and the timers it sets read the retryCount of the      *)
(* render in which the user clicked; setRetryCount changes what a later    *)
(* render sees.                                                            *)
(***************************************************************************)
ErrorTypes == {"expired_code", "timeout", "invalid_credentials", "other"}

ConnInit ==
    /\ SearchIdle
    /\ ChatIdle
    /\ PackIdle
    /\ ScoreIdle
    /\ LibIdle
    /\ JudgeIdle
    /\ ExtractIdle
    /\ SendIdle
    /\ ConnIdle

connOthers == <<searchVars, chatVars, packVars, scoreVars, judgeVars, extractVars,
               sendVars, libVars>>

\* The user clicks "Verbind met Dropbox": the popup opens.
UserConnects ==
    /\ cnpc = "idle"
    /\ ~isConnected
    /\ retryCount < MaxAutoRetries
    /\ isConnecting' = TRUE
    /\ isAutoRetrying' = FALSE
    /\ closureRetryCount' = retryCount
    /\ autoRetries' = 0
    /\ cnpc' = "waiting"
    /\ UNCHANGED <<storedToken, connToken, parentToken, isConnected, isDropboxConnected,
                   availableFiles, dropboxFiles, isLoadingFiles, loadsInFlight,
                   retryCount, disconnected>>
    /\ UNCHANGED connOthers

\* The limit of automatic retries for an error type.
RetryLimit(type) == IF type = "expired_code" THEN 3 ELSE 2

\* The handler schedules connectToDropbox again.
SchedulesRetry(type, fastRetry) ==
    /\ type # "invalid_credentials"
    /\ fastRetry
    /\ closureRetryCount < RetryLimit(type)

\* The popup posts DROPBOX_AUTH_ERROR.
AuthError ==
    /\ cnpc = "waiting"
    /\ \E type \in ErrorTypes, fastRetry \in BOOLEAN :
        /\ IF SchedulesRetry(type, fastRetry)
           THEN /\ cnpc' = "scheduled"
                /\ retryCount' = retryCount
           ELSE /\ cnpc' = "idle"
                /\ retryCount' = IF type = "invalid_credentials" THEN retryCount
                                 ELSE retryCount + 1
        /\ IF ~fastRetry \/ closureRetryCount >= 2
           THEN isConnecting' = FALSE /\ isAutoRetrying' = FALSE
           ELSE /\ isConnecting' = isConnecting
                /\ isAutoRetrying' = (SchedulesRetry(type, fastRetry) \/ isAutoRetrying)
    /\ UNCHANGED <<storedToken, connToken, parentToken, isConnected, isDropboxConnected,
                   availableFiles, dropboxFiles, isLoadingFiles, loadsInFlight,
                   closureRetryCount, autoRetries, disconnected>>
    /\ UNCHANGED connOthers

\* The 45 second timer fires while the popup is still open.
PopupTimeout ==
    /\ cnpc = "waiting"
    /\ IF closureRetryCount < 2
       THEN /\ isAutoRetrying' = TRUE
            /\ isConnecting' = isConnecting
            /\ cnpc' = "scheduled"
       ELSE /\ isAutoRetrying' = FALSE
            /\ isConnecting' = FALSE
            /\ cnpc' = "idle"
    /\ UNCHANGED <<storedToken, connToken, parentToken, isConnected, isDropboxConnected,
                   availableFiles, dropboxFiles, isLoadingFiles, loadsInFlight,
                   retryCount, closureRetryCount, autoRetries, disconnected>>
    /\ UNCHANGED connOthers

\* The retry timer fires: setRetryCount(prev => prev + 1); connectToDropbox()
\* of the same render.
RetryFires ==
    /\ cnpc = "scheduled"
    /\ autoRetries < MaxAutoRetries
    /\ retryCount' = retryCount + 1
    /\ autoRetries' = autoRetries + 1
    /\ isConnecting' = TRUE
    /\ isAutoRetrying' = FALSE
    /\ cnpc' = "waiting"
    /\ UNCHANGED <<storedToken, connToken, parentToken, isConnected, isDropboxConnected,
                   availableFiles, dropboxFiles, isLoadingFiles, loadsInFlight,
                   closureRetryCount, disconnected>>
    /\ UNCHANGED connOthers

\* The user closes the popup.
PopupClosed ==
    /\ cnpc = "waiting"
    /\ isConnecting' = FALSE
    /\ isAutoRetrying' = FALSE
    /\ cnpc' = "idle"
    /\ UNCHANGED <<storedToken, connToken, parentToken, isConnected, isDropboxConnected,
                   availableFiles, dropboxFiles, isLoadingFiles, loadsInFlight,
                   retryCount, closureRetryCount, autoRetries, disconnected>>
    /\ UNCHANGED connOthers

\* The popup posts DROPBOX_AUTH_SUCCESS: handleAuthSuccess stores the token,
\* tells the parent, and starts loading the files.
AuthSuccess ==
    /\ cnpc = "waiting"
    /\ loadsInFlight < MaxLoads
    /\ connToken' = TRUE
    /\ storedToken' = TRUE
    /\ isConnected' = TRUE
    /\ isConnecting' = FALSE
    /\ isAutoRetrying' = FALSE
    /\ isDropboxConnected' = TRUE
    /\ parentToken' = storedToken'
    /\ retryCount' = 0
    /\ isLoadingFiles' = TRUE
    /\ loadsInFlight' = loadsInFlight + 1
    /\ disconnected' = FALSE
    /\ cnpc' = "idle"
    /\ UNCHANGED <<availableFiles, dropboxFiles, closureRetryCount, autoRetries>>
    /\ UNCHANGED connOthers

\* The refresh button, disabled while isLoadingFiles.
RefreshFiles ==
    /\ isConnected
    /\ connToken
    /\ ~isLoadingFiles
    /\ loadsInFlight < MaxLoads
    /\ isLoadingFiles' = TRUE
    /\ loadsInFlight' = loadsInFlight + 1
    /\ UNCHANGED <<storedToken, connToken, parentToken, isConnected, isDropboxConnected,
                   availableFiles, dropboxFiles, isConnecting, isAutoRetrying,
                   retryCount, closureRetryCount, autoRetries, disconnected, cnpc>>
    /\ UNCHANGED connOthers

\* What disconnectDropbox sets, in DropboxConnect and through
\* onConnectionChange(false) and onFilesLoaded([]) in the parent.
Disconnects ==
    /\ storedToken' = FALSE
    /\ connToken' = FALSE
    /\ isConnected' = FALSE
    /\ availableFiles' = 0
    /\ retryCount' = 0
    /\ isAutoRetrying' = FALSE
    /\ isDropboxConnected' = FALSE
    /\ dropboxFiles' = 0
    /\ parentToken' = FALSE
    /\ disconnected' = TRUE

\* The user clicks the disconnect button.
DisconnectDropbox ==
    /\ isConnected
    /\ Disconnects
    /\ UNCHANGED <<isLoadingFiles, loadsInFlight, isConnecting, closureRetryCount,
                   autoRetries, cnpc>>
    /\ UNCHANGED connOthers

\* search-files answers a listing started by loadDropboxFiles.
LoadResponds ==
    /\ loadsInFlight > 0
    /\ loadsInFlight' = loadsInFlight - 1
    /\ isLoadingFiles' = FALSE
    /\ \/ \E n \in 0..MaxListed :
            /\ availableFiles' = n
            /\ dropboxFiles' = n
            /\ UNCHANGED <<storedToken, connToken, parentToken, isConnected,
                           isDropboxConnected, isAutoRetrying, retryCount, disconnected>>
       \/ Disconnects
       \/ UNCHANGED <<storedToken, connToken, parentToken, isConnected,
                      isDropboxConnected, availableFiles, dropboxFiles,
                      isAutoRetrying, retryCount, disconnected>>
    /\ UNCHANGED <<isConnecting, closureRetryCount, autoRetries, cnpc>>
    /\ UNCHANGED connOthers

ConnNext ==
    \/ UserConnects
    \/ AuthError
    \/ PopupTimeout
    \/ RetryFires
    \/ PopupClosed
    \/ AuthSuccess
    \/ RefreshFiles
    \/ DisconnectDropbox
    \/ LoadResponds

SpecConnect == ConnInit /\ [][ConnNext]_vars

DisconnectedStaysClean ==
    disconnected =>
        /\ ~storedToken
        /\ ~connToken
        /\ ~parentToken
        /\ availableFiles = 0
        /\ dropboxFiles = 0
        /\ ~isConnected
        /\ ~isDropboxConnected

(***************************************************************************)
(* SpecLibrary: the session list and the PDF library of CanvasCoach, with  *)
(* the library in localStorage.  A PDF is its id.  The effect that saves   *)
(* the library runs after every change of libraryPDFs and is part of the   *)
(* action that changes it.                                                 *)
(***************************************************************************)
PDFIds == 1..MaxLibraryPDFs

LibInit ==
    /\ SearchIdle
    /\ ChatIdle
    /\ PackIdle
    /\ ScoreIdle
    /\ JudgeIdle
    /\ ExtractIdle
    /\ SendIdle
    /\ ConnIdle
    /\ LibIdle

libOthers == <<searchVars, chatVars, packVars, scoreVars, judgeVars, extractVars,
              sendVars, connVars>>

\* useEffect(() => { if (libraryPDFs.length > 0) saveLibraryToStorage(libraryPDFs) })
SavedAfter(lib, stored) == IF lib # {} THEN lib ELSE stored

HandlePDFUpload ==
    /\ \E i \in PDFIds \ (sessionPDFs \cup libraryPDFs) :
        sessionPDFs' = sessionPDFs \cup {i}
    /\ isInitialized' = TRUE
    /\ UNCHANGED <<libraryPDFs, storedLibrary>>
    /\ UNCHANGED libOthers

AddToLibrary ==
    /\ \E i \in sessionPDFs \ libraryPDFs :
        libraryPDFs' = libraryPDFs \cup {i}
    /\ storedLibrary' = SavedAfter(libraryPDFs', storedLibrary)
    /\ UNCHANGED <<sessionPDFs, isInitialized>>
    /\ UNCHANGED libOthers

RemoveFromLibrary ==
    /\ \E i \in libraryPDFs :
        /\ libraryPDFs' = libraryPDFs \ {i}
        /\ sessionPDFs' = sessionPDFs \ {i}
    /\ storedLibrary' = SavedAfter(libraryPDFs', storedLibrary)
    /\ UNCHANGED isInitialized
    /\ UNCHANGED libOthers

LoadFromLibrary ==
    /\ \E i \in libraryPDFs \ sessionPDFs :
        sessionPDFs' = sessionPDFs \cup {i}
    /\ isInitialized' = TRUE
    /\ UNCHANGED <<libraryPDFs, storedLibrary>>
    /\ UNCHANGED libOthers

LoadAllFromLibrary ==
    /\ libraryPDFs \ sessionPDFs # {}
    /\ sessionPDFs' = sessionPDFs \cup libraryPDFs
    /\ isInitialized' = TRUE
    /\ UNCHANGED <<libraryPDFs, storedLibrary>>
    /\ UNCHANGED libOthers

\* setLibraryPDFs([]) and clearLibraryFromStorage().
ClearLibrary ==
    /\ libraryPDFs' = {}
    /\ storedLibrary' = {}
    /\ UNCHANGED <<sessionPDFs, isInitialized>>
    /\ UNCHANGED libOthers

RemovePDF ==
    /\ \E i \in sessionPDFs :
        sessionPDFs' = sessionPDFs \ {i}
    /\ isInitialized' = IF Cardinality(sessionPDFs) = 1 THEN FALSE ELSE isInitialized
    /\ UNCHANGED <<libraryPDFs, storedLibrary>>
    /\ UNCHANGED libOthers

ClearAllPDFs ==
    /\ sessionPDFs' = {}
    /\ isInitialized' = FALSE
    /\ UNCHANGED <<libraryPDFs, storedLibrary>>
    /\ UNCHANGED libOthers

\* The page is loaded again: the mount effect reads the library.
ReloadPage ==
    /\ libraryPDFs' = storedLibrary
    /\ sessionPDFs' = storedLibrary
    /\ isInitialized' = (storedLibrary # {})
    /\ UNCHANGED storedLibrary
    /\ UNCHANGED libOthers

LibNext ==
    \/ HandlePDFUpload
    \/ AddToLibrary
    \/ RemoveFromLibrary
    \/ LoadFromLibrary
    \/ LoadAllFromLibrary
    \/ ClearLibrary
    \/ RemovePDF
    \/ ClearAllPDFs
    \/ ReloadPage

SpecLibrary == LibInit /\ [][LibNext]_vars

\* C29 (as claimed): the library in localStorage is the library in memory.
StoredLibraryMatches == storedLibrary = libraryPDFs

\* C30 (as claimed): isInitialized is true exactly when the session list is
\* not empty.
InitializedIffLoaded == isInitialized <=> (sessionPDFs # {})

====
